---- MODULE Spec2Model ----
(***************************************************************************)
(* Tensorizer: the graph-to-graph pass of the BMG compiler that rewrites   *)
(* scalar operator nodes over array-valued operands into matrix operators. *)
(*                                                                         *)
(* A graph is a sequence of nodes in dependency order; a node is addressed *)
(* by its index and holds its operator kind, the ordered indices of its    *)
(* operands and, for a constant, its value.  The pass walks the source     *)
(* graph once, node by node, and appends the replacement of every node to  *)
(* the target graph.                                                       *)
(***************************************************************************)
EXTENDS Integers, Sequences, FiniteSets, TLC

VARIABLES
    src,            \* the source graph (bmg_original): Seq of nodes
    sizer,          \* Sizer over the source graph: node index -> size
    tgt,            \* the target graph (cloner.bmg): Seq of nodes
    copy_context,   \* cloner.copy_context: source index -> target index
    assessments,    \* node_needs_transform of the assessment of each visited node
    error_report,   \* the errors collected by the pass
    next,           \* the source node the traversal visits next
    status,         \* "running", "done" or "raised" ("idle": no pass)
    exn,            \* the message of the exception that ended the pass
    pass,           \* 1 in the pass over the source graph, 2 in the pass over its output
    first,          \* the target graph of pass 1, kept during pass 2
    \* WindowScheme (hmc_utils.py)
    num_adaptive_samples,
    _start_iter,
    _end_iter,
    _window_size,
    _iteration,
    closed_windows, \* the sizes of the windows closed so far, in order
    open_window,    \* the in-window iterations since the last closed window
    \* Tensorizer._element_type on one size
    shape,          \* the size handed to the category resolver
    element_type,   \* the category it returned ("none" before the call)
    \* MassMatrixAdapter and its WelfordCovariance (hmc_utils.py)
    diagonal,       \* MassMatrixAdapter.diagonal
    mass_inv,       \* MassMatrixAdapter.mass_inv, a rational <<numerator, denominator>>
    momentum_dist,  \* MassMatrixAdapter.momentum_dist
    _count,         \* _adapter._count
    _mean,          \* _adapter._mean, a rational
    _M2,            \* _adapter._M2, a rational
    warned,         \* the messages handed to warnings.warn, in order
    adapter_status, \* "ok", or "raised" after an exception left finalize ("idle": no adapter)
    last_finalize,  \* what the last call of finalize found and whether it warned
    \* marginal1d/utils.py
    EMPTY_DATA,     \* the module constant: figure -> glyph -> column -> value
    output,         \* the local output of the running call of create_sources
    position,       \* the <<figure, glyph>> the running call handles next (<<>>: no call runs)
    returned,       \* what the calls of create_sources returned, in order
    utils_status    \* "imported" ("idle": the module is not loaded)

tvars == <<src, sizer, tgt, copy_context, assessments, error_report, next, status, exn,
           pass, first>>
wvars == <<num_adaptive_samples, _start_iter, _end_iter, _window_size, _iteration,
           closed_windows, open_window>>
svars == <<shape, element_type>>

avars == <<diagonal, mass_inv, momentum_dist, _count, _mean, _M2, warned, adapter_status,
           last_finalize>>
dvars == <<EMPTY_DATA, output, position, returned, utils_status>>

vars == <<tvars, wvars, svars, avars, dvars>>

(***************************************************************************)
(* Bounds of the model.                                                    *)
(***************************************************************************)
MaxArity == 3        \* most operands of the operator node
MaxConsumers == 2    \* most consumers of the operator node
MaxRank == 3         \* highest rank of a size handed to the category resolver
MaxDim == 3          \* largest dimension of such a size
MaxNodes == MaxArity + 2   \* most nodes of a source graph
MaxCoordinate == 1   \* largest position handed to MassMatrixAdapter.step
MaxPositions == 3    \* most positions handed to it between two calls of finalize
MaxFinalize == 3     \* most calls of MassMatrixAdapter.finalize
MaxCalls == 12       \* most calls of create_sources
MaxSamples == 300    \* largest num_adaptive_samples of a WindowScheme
MaxIterations == 310 \* most calls of WindowScheme.step

(***************************************************************************)
(* Sizes.                                                                  *)
(***************************************************************************)
Unsized == <<-1>>

\* one size at least of every category, two of them not broadcastable
Sizes == {Unsized, <<>>, <<1>>, <<2>>, <<2, 2>>, <<3, 3, 3>>}

\* the sizes of the operator node: one size of every category
OperatorSizes == {Unsized, <<>>, <<2, 2>>, <<3, 3, 3>>}

is_scalar(s) == \A i \in DOMAIN s : s[i] = 1

TENSOR == "TENSOR"
SCALAR == "SCALAR"
MATRIX == "MATRIX"
UNKNOWN == "UNKNOWN"

\* the category resolver without the test of the dimension of a vector
ElementTypeOfSize_any_vector(sz) ==
    IF sz = Unsized THEN UNKNOWN
    ELSE IF Len(sz) = 0 \/ is_scalar(sz) THEN SCALAR
    ELSE IF Len(sz) = 1 THEN MATRIX
    ELSE IF Len(sz) = 2 THEN MATRIX
    ELSE TENSOR

ElementTypeOfSize(size) ==
    IF size = Unsized THEN UNKNOWN
    ELSE IF Len(size) = 0 \/ is_scalar(size) THEN SCALAR
    ELSE IF Len(size) = 1 /\ size[1] > 1 THEN MATRIX
    ELSE IF Len(size) = 2 THEN MATRIX
    ELSE TENSOR

(***************************************************************************)
(* Nodes.                                                                  *)
(***************************************************************************)
Node(k, ins, v) == [kind |-> k, inputs |-> ins, value |-> v]

UnaryKinds == {"Complement", "Exp", "Log", "Log1mexp", "Negate", "Log1p"}
\* power stands for the binary operators the Tensorizer has no rule for
BinaryKinds == {"Add", "Div", "Power"}
NaryKinds == {"Mult", "Sum"}

\* UnsupportedNodeFixer._unsupported_nodes: the kinds the fixer of
\* unsupported nodes rewrites; log1p is the one the source names
_unsupported_nodes == {"Log1p"}

\* c consumers of one node, the first u of them of an unsupported kind
Consumers(c, u) == [j \in 1..c |-> IF j <= u THEN "Log1p" ELSE "Exp"]

KindsOfArity(n) ==
    NaryKinds \cup (IF n = 1 THEN UnaryKinds ELSE {})
              \cup (IF n = 2 THEN BinaryKinds ELSE {})

\* node.outputs.items: the consumers of a source node
outputs(node) == {j \in DOMAIN src : \E k \in DOMAIN src[j].inputs : src[j].inputs[k] = node}

\* Sizer applied to a node of the target graph that replaces a source node:
\* the replacement has the size of the node it replaces
sizer_new(t) ==
    LET s == CHOOSE s \in DOMAIN copy_context : copy_context[s] = t
    IN sizer[s]

\* Tensorizer._element_type on a node of the source graph / of the target graph
_element_type(node) == ElementTypeOfSize(sizer[node])
_element_type_new(t) == ElementTypeOfSize(sizer_new(t))


(***************************************************************************)
(* What a rewrite of one node gives: either an exception, or the nodes it  *)
(* adds to the target graph, the last of which is the replacement.         *)
(***************************************************************************)
Raise(msg) == [raised |-> TRUE, exn |-> msg, nodes |-> <<>>]
Emit(ns) == [raised |-> FALSE, exn |-> "", nodes |-> ns]

\* the index a node gets when it is the k-th node added by the current rewrite
Fresh(k) == Len(tgt) + k

\* Cloner.clone: the same operator kind and value over the given operands
clone(node, new_inputs) == Emit(<<Node(src[node].kind, new_inputs, src[node].value)>>)

(***************************************************************************)
(* The rewrite rules of the Tensorizer.                                    *)
(***************************************************************************)
\* the rewrite of a division with the operands of the reciprocal exchanged
_tensorize_div_reciprocal_swapped(node, new_inputs) ==
    IF Len(src[node].inputs) # 2 THEN Raise("AssertionError")
    ELSE LET tensor_input == new_inputs[1]
             scalar_input == new_inputs[2]
         IN IF _element_type_new(tensor_input) # MATRIX
                THEN Raise("Expected a matrix as first operand")
            ELSE IF _element_type_new(scalar_input) # SCALAR
                THEN Raise("Expected a scalar as second operand")
            ELSE Emit(<<Node("PosReal", <<>>, 1),
                        Node("Div", <<scalar_input, Fresh(1)>>, 0),
                        Node("MatrixScale", <<Fresh(2), tensor_input>>, 0)>>)

_tensorize_div(node, new_inputs) ==
    IF Len(src[node].inputs) # 2 THEN Raise("AssertionError")
    ELSE LET tensor_input == new_inputs[1]
             scalar_input == new_inputs[2]
         IN IF _element_type_new(tensor_input) # MATRIX
                THEN Raise("Expected a matrix as first operand")
            ELSE IF _element_type_new(scalar_input) # SCALAR
                THEN Raise("Expected a scalar as second operand")
            ELSE Emit(<<Node("PosReal", <<>>, 1),
                        Node("Div", <<Fresh(1), scalar_input>>, 0),
                        Node("MatrixScale", <<Fresh(2), tensor_input>>, 0)>>)

\* the matrix additions of the fold over the first k operands
RECURSIVE SumFold(_, _)
SumFold(new_inputs, k) ==
    IF k <= 1 THEN <<>>
    ELSE Append(SumFold(new_inputs, k - 1),
                Node("MatrixAdd",
                     <<IF k = 2 THEN new_inputs[1] ELSE Fresh(k - 2), new_inputs[k]>>, 0))

\* the rewrite of a sum that folds only when every operand is a matrix
_tensorize_sum_all_matrix(node, new_inputs) ==
    IF Len(new_inputs) < 1 THEN Raise("AssertionError")
    ELSE IF \A k \in DOMAIN src[node].inputs : _element_type(src[node].inputs[k]) = MATRIX
        THEN LET n == Len(new_inputs)
                 current == IF n = 1 THEN new_inputs[1] ELSE Fresh(n - 1)
             IN Emit(Append(SumFold(new_inputs, n), Node("MatrixSum", <<current>>, 0)))
    ELSE Emit(<<Node("Sum", new_inputs, 0)>>)

_tensorize_sum(node, new_inputs) ==
    IF Len(new_inputs) < 1 THEN Raise("AssertionError")
    ELSE IF \E k \in DOMAIN src[node].inputs : _element_type(src[node].inputs[k]) = MATRIX
        THEN LET n == Len(new_inputs)
                 current == IF n = 1 THEN new_inputs[1] ELSE Fresh(n - 1)
             IN Emit(Append(SumFold(new_inputs, n), Node("MatrixSum", <<current>>, 0)))
    ELSE Emit(<<Node("Sum", new_inputs, 0)>>)

\* the rewrite of a multiplication that keeps the operand order in the scale node
_tensorize_multiply_keeps_order(node, new_inputs) ==
    IF Len(new_inputs) # 2
        THEN Raise("Cannot transform a mult into a tensor mult because there are not two operands")
    ELSE LET lhs_sz == sizer_new(new_inputs[1])
             rhs_sz == sizer_new(new_inputs[2])
             lhs_is_scalar == is_scalar(lhs_sz)
             rhs_is_scalar == is_scalar(rhs_sz)
         IN IF lhs_sz = Unsized \/ rhs_sz = Unsized
                THEN Raise("cannot multiply an unsized quantity")
            ELSE IF ~lhs_is_scalar /\ ~rhs_is_scalar
                THEN Emit(<<Node("ElementwiseMult", <<new_inputs[1], new_inputs[2]>>, 0)>>)
            ELSE IF lhs_is_scalar /\ ~rhs_is_scalar
                THEN Emit(<<Node("MatrixScale", <<new_inputs[1], new_inputs[2]>>, 0)>>)
            ELSE IF rhs_is_scalar /\ ~lhs_is_scalar
                THEN Emit(<<Node("MatrixScale", <<new_inputs[1], new_inputs[2]>>, 0)>>)
            ELSE Emit(<<Node("Mult", <<new_inputs[1], new_inputs[2]>>, 0)>>)

\* the rewrite of a multiplication that looks for an unsized left operand only
_tensorize_multiply_lhs_only(node, new_inputs) ==
    IF Len(new_inputs) # 2
        THEN Raise("Cannot transform a mult into a tensor mult because there are not two operands")
    ELSE LET lhs_sz == sizer_new(new_inputs[1])
             rhs_sz == sizer_new(new_inputs[2])
             lhs_is_scalar == is_scalar(lhs_sz)
             rhs_is_scalar == is_scalar(rhs_sz)
         IN IF lhs_sz = Unsized
                THEN Raise("cannot multiply an unsized quantity")
            ELSE IF ~lhs_is_scalar /\ ~rhs_is_scalar
                THEN Emit(<<Node("ElementwiseMult", <<new_inputs[1], new_inputs[2]>>, 0)>>)
            ELSE IF lhs_is_scalar /\ ~rhs_is_scalar
                THEN Emit(<<Node("MatrixScale", <<new_inputs[1], new_inputs[2]>>, 0)>>)
            ELSE IF rhs_is_scalar /\ ~lhs_is_scalar
                THEN Emit(<<Node("MatrixScale", <<new_inputs[2], new_inputs[1]>>, 0)>>)
            ELSE Emit(<<Node("Mult", <<new_inputs[1], new_inputs[2]>>, 0)>>)

\* the rewrite of a multiplication that fails only when both operands are unsized
_tensorize_multiply_both_unsized(node, new_inputs) ==
    IF Len(new_inputs) # 2
        THEN Raise("Cannot transform a mult into a tensor mult because there are not two operands")
    ELSE LET lhs_sz == sizer_new(new_inputs[1])
             rhs_sz == sizer_new(new_inputs[2])
             lhs_is_scalar == is_scalar(lhs_sz)
             rhs_is_scalar == is_scalar(rhs_sz)
         IN IF lhs_sz = Unsized /\ rhs_sz = Unsized
                THEN Raise("cannot multiply an unsized quantity")
            ELSE IF ~lhs_is_scalar /\ ~rhs_is_scalar
                THEN Emit(<<Node("ElementwiseMult", <<new_inputs[1], new_inputs[2]>>, 0)>>)
            ELSE IF lhs_is_scalar /\ ~rhs_is_scalar
                THEN Emit(<<Node("MatrixScale", <<new_inputs[1], new_inputs[2]>>, 0)>>)
            ELSE IF rhs_is_scalar /\ ~lhs_is_scalar
                THEN Emit(<<Node("MatrixScale", <<new_inputs[2], new_inputs[1]>>, 0)>>)
            ELSE Emit(<<Node("Mult", <<new_inputs[1], new_inputs[2]>>, 0)>>)

\* the rewrite of a multiplication that scales also a product of two arrays
_tensorize_multiply_scales_arrays(node, new_inputs) ==
    IF Len(new_inputs) # 2
        THEN Raise("Cannot transform a mult into a tensor mult because there are not two operands")
    ELSE LET lhs_sz == sizer_new(new_inputs[1])
             rhs_sz == sizer_new(new_inputs[2])
             lhs_is_scalar == is_scalar(lhs_sz)
             rhs_is_scalar == is_scalar(rhs_sz)
         IN IF lhs_sz = Unsized \/ rhs_sz = Unsized
                THEN Raise("cannot multiply an unsized quantity")
            ELSE IF lhs_is_scalar /\ rhs_is_scalar
                THEN Emit(<<Node("Mult", <<new_inputs[1], new_inputs[2]>>, 0)>>)
            ELSE IF rhs_is_scalar
                THEN Emit(<<Node("MatrixScale", <<new_inputs[2], new_inputs[1]>>, 0)>>)
            ELSE Emit(<<Node("MatrixScale", <<new_inputs[1], new_inputs[2]>>, 0)>>)

_tensorize_multiply(node, new_inputs) ==
    IF Len(new_inputs) # 2
        THEN Raise("Cannot transform a mult into a tensor mult because there are not two operands")
    ELSE LET lhs_sz == sizer_new(new_inputs[1])
             rhs_sz == sizer_new(new_inputs[2])
             lhs_is_scalar == is_scalar(lhs_sz)
             rhs_is_scalar == is_scalar(rhs_sz)
         IN IF lhs_sz = Unsized \/ rhs_sz = Unsized
                THEN Raise("cannot multiply an unsized quantity")
            ELSE IF ~lhs_is_scalar /\ ~rhs_is_scalar
                THEN Emit(<<Node("ElementwiseMult", <<new_inputs[1], new_inputs[2]>>, 0)>>)
            ELSE IF lhs_is_scalar /\ ~rhs_is_scalar
                THEN Emit(<<Node("MatrixScale", <<new_inputs[1], new_inputs[2]>>, 0)>>)
            ELSE IF rhs_is_scalar /\ ~lhs_is_scalar
                THEN Emit(<<Node("MatrixScale", <<new_inputs[2], new_inputs[1]>>, 0)>>)
            ELSE Emit(<<Node("Mult", <<new_inputs[1], new_inputs[2]>>, 0)>>)

\* the unary rewrite that takes every operand that is not a scalar for a matrix
_tensorize_unary_elementwise_not_scalar(node, new_inputs, creator) ==
    IF Len(new_inputs) # 1 THEN Raise("AssertionError")
    ELSE IF _element_type_new(new_inputs[1]) # SCALAR
        THEN Emit(<<Node(creator, <<new_inputs[1]>>, 0)>>)
    ELSE clone(node, new_inputs)

_tensorize_unary_elementwise(node, new_inputs, creator) ==
    IF Len(new_inputs) # 1 THEN Raise("AssertionError")
    ELSE IF _element_type_new(new_inputs[1]) = MATRIX
        THEN Emit(<<Node(creator, <<new_inputs[1]>>, 0)>>)
    ELSE clone(node, new_inputs)

\* the binary rewrite that asks for one matrix operand only
_tensorize_binary_elementwise_either(node, new_inputs, creator) ==
    IF Len(new_inputs) # 2 THEN Raise("AssertionError")
    ELSE IF \/ _element_type_new(new_inputs[1]) = MATRIX
            \/ _element_type_new(new_inputs[2]) = MATRIX
        THEN Emit(<<Node(creator, <<new_inputs[1], new_inputs[2]>>, 0)>>)
    ELSE clone(node, new_inputs)

_tensorize_binary_elementwise(node, new_inputs, creator) ==
    IF Len(new_inputs) # 2 THEN Raise("AssertionError")
    ELSE IF /\ _element_type_new(new_inputs[1]) = MATRIX
            /\ _element_type_new(new_inputs[2]) = MATRIX
        THEN Emit(<<Node(creator, <<new_inputs[1], new_inputs[2]>>, 0)>>)
    ELSE clone(node, new_inputs)

(***************************************************************************)
(* Eligibility.                                                            *)
(***************************************************************************)
_always(node) == TRUE

\* the eligibility of a division that looks at the dividend only
div_can_be_tensorized_dividend_only(node) ==
    IF Len(src[node].inputs) = 2
        THEN _element_type(src[node].inputs[1]) = MATRIX
    ELSE FALSE

\* the eligibility of a division that looks at the divisor only
div_can_be_tensorized_divisor_only(node) ==
    IF Len(src[node].inputs) = 2
        THEN _element_type(src[node].inputs[2]) = SCALAR
    ELSE FALSE

div_can_be_tensorized(node) ==
    IF Len(src[node].inputs) = 2
        THEN /\ _element_type(src[node].inputs[1]) = MATRIX
             /\ _element_type(src[node].inputs[2]) = SCALAR
    ELSE FALSE

\* the eligibility of a negation that ignores the consumers
negate_can_be_tensorized_always(node) == TRUE

negate_can_be_tensorized(node) ==
    IF \E i \in outputs(node) : src[i].kind \in _unsupported_nodes
        THEN FALSE
    ELSE TRUE

\* the eligibility of a multiplication that ignores the operand count
mult_can_be_tensorized_always(node) == TRUE

mult_can_be_tensorized(node) == Len(src[node].inputs) = 2

\* the keys of can_be_transformed_map and of transform_map
TensorizedKinds ==
    {"Add", "Mult", "Div", "Complement", "Exp", "Log", "Log1mexp", "Negate", "Sum"}

can_be_transformed_map(kind, node) ==
    CASE kind = "Add" -> _always(node)
      [] kind = "Mult" -> mult_can_be_tensorized(node)
      [] kind = "Div" -> div_can_be_tensorized(node)
      [] kind = "Complement" -> _always(node)
      [] kind = "Exp" -> _always(node)
      [] kind = "Log" -> _always(node)
      [] kind = "Log1mexp" -> _always(node)
      [] kind = "Negate" -> negate_can_be_tensorized(node)
      [] kind = "Sum" -> _always(node)

transform_map(kind, node, inputs) ==
    CASE kind = "Add" -> _tensorize_binary_elementwise(node, inputs, "MatrixAdd")
      [] kind = "Mult" -> _tensorize_multiply(node, inputs)
      [] kind = "Div" -> _tensorize_div(node, inputs)
      [] kind = "Complement" -> _tensorize_unary_elementwise(node, inputs, "MatrixComplement")
      [] kind = "Exp" -> _tensorize_unary_elementwise(node, inputs, "MatrixExp")
      [] kind = "Log" -> _tensorize_unary_elementwise(node, inputs, "MatrixLog")
      [] kind = "Log1mexp" -> _tensorize_unary_elementwise(node, inputs, "MatrixLog1mexp")
      [] kind = "Negate" -> _tensorize_unary_elementwise(node, inputs, "MatrixNegate")
      [] kind = "Sum" -> _tensorize_sum(node, inputs)

\* the eligibility that takes every kind of the table for eligible
can_be_tensorized_whole_table(original_node) ==
    src[original_node].kind \in TensorizedKinds

can_be_tensorized(original_node) ==
    IF src[original_node].kind \in TensorizedKinds
        THEN can_be_transformed_map(src[original_node].kind, original_node)
    ELSE FALSE

\* two sizes agree up to broadcasting: aligned from the right, the
\* dimensions are equal or one of them is 1
Broadcastable(s, t) ==
    \A k \in 1..(IF Len(s) < Len(t) THEN Len(s) ELSE Len(t)) :
        LET a == s[Len(s) - k + 1]
            b == t[Len(t) - k + 1]
        IN a = b \/ a = 1 \/ b = 1

\* SizeAssessment.size_error: the operands of a node that are sized must
\* agree on their size up to broadcasting
size_error(node) ==
    LET ins == src[node].inputs
    IN IF \E j, k \in DOMAIN ins :
              /\ sizer[ins[j]] # Unsized
              /\ sizer[ins[k]] # Unsized
              /\ ~Broadcastable(sizer[ins[j]], sizer[ins[k]])
           THEN <<[kind |-> "size", node |-> node]>>
       ELSE <<>>

\* the assessment that asks for no transform of a node with a size error
assess_node_flag_needs_no_error(node) ==
    [node_needs_transform |-> can_be_tensorized(node) /\ size_error(node) = <<>>,
     error_report |-> size_error(node)]

assess_node(node) ==
    [node_needs_transform |-> can_be_tensorized(node),
     error_report |-> size_error(node)]

transform_node(node, new_inputs) ==
    IF src[node].kind \in TensorizedKinds
        THEN transform_map(src[node].kind, node, new_inputs)
    ELSE clone(node, new_inputs)


(***************************************************************************)
(* A specification of one component leaves the other components idle.     *)
(***************************************************************************)
TensorizerIdle ==
    /\ src = <<>> /\ sizer = <<>> /\ tgt = <<>> /\ copy_context = <<>>
    /\ assessments = <<>> /\ error_report = <<>> /\ next = 1
    /\ status = "idle" /\ exn = "" /\ pass = 1 /\ first = <<>>

WindowIdle ==
    /\ num_adaptive_samples = 0 /\ _start_iter = 0 /\ _end_iter = 0
    /\ _window_size = 0 /\ _iteration = 0
    /\ closed_windows = <<>> /\ open_window = 0

ShapeIdle == shape = <<>> /\ element_type = "none"

AdapterIdle ==
    /\ diagonal = TRUE /\ mass_inv = <<0, 1>> /\ momentum_dist = <<>>
    /\ _count = 0 /\ _mean = <<0, 1>> /\ _M2 = <<0, 1>>
    /\ warned = <<>> /\ adapter_status = "idle" /\ last_finalize = <<>>

UtilsIdle ==
    /\ EMPTY_DATA = <<>> /\ output = <<>> /\ position = <<>>
    /\ returned = <<>> /\ utils_status = "idle"

(***************************************************************************)
(* The source graphs of the model: the operands, constants of any size;    *)
(* one operator node over them, of any kind and any size; and consumers    *)
(* of the operator node.                                                   *)
(***************************************************************************)
SourceGraph(n, k, ck) ==
    [i \in 1..(n + 1 + Len(ck)) |->
        IF i <= n THEN Node("Const", <<>>, 0)
        ELSE IF i = n + 1 THEN Node(k, [j \in 1..n |-> j], 0)
        ELSE Node(ck[i - n - 1], <<n + 1>>, 0)]

Init ==
    /\ \E n \in 1..MaxArity, c \in 0..MaxConsumers :
         \E k \in KindsOfArity(n), u \in 0..c,
            sz \in [1..n -> Sizes], osz \in OperatorSizes :
            /\ n + 1 + c <= MaxNodes
            /\ src = SourceGraph(n, k, Consumers(c, u))
            \* a consumer is elementwise: it has the size of its operand
            /\ sizer = [i \in 1..(n + 1 + c) |-> IF i <= n THEN sz[i] ELSE osz]
    /\ tgt = <<>>
    /\ copy_context = <<>>
    /\ assessments = <<>>
    /\ error_report = <<>>
    /\ next = 1
    /\ status = "running"
    /\ exn = ""
    /\ pass = 1
    /\ first = <<>>
    /\ WindowIdle
    /\ ShapeIdle
    /\ AdapterIdle
    /\ UtilsIdle

(***************************************************************************)
(* copy_and_replace: one iteration of the traversal.  The node is          *)
(* assessed and its errors join the report; it is transformed over the     *)
(* replacements of its operands when the assessment asks for it and cloned *)
(* over them when not; its replacement is recorded before any consumer is  *)
(* visited.  An exception of the transformer ends the pass.                *)
(***************************************************************************)
\* the iteration without the cache: a node that is cloned gets copies of the
\* replacements of its operands instead of the replacements themselves
VisitNode_no_cache ==
    /\ status = "running"
    /\ next <= Len(src)
    /\ LET original == next
           inputs == [k \in DOMAIN src[original].inputs |->
                         copy_context[src[original].inputs[k]]]
           assessment == assess_node(original)
           copies == [k \in DOMAIN inputs |-> tgt[inputs[k]]]
           result == IF assessment.node_needs_transform
                         THEN transform_node(original, inputs)
                     ELSE Emit(Append(copies,
                                      Node(src[original].kind,
                                           [k \in DOMAIN inputs |-> Len(tgt) + k],
                                           src[original].value)))
       IN /\ error_report' = error_report \o assessment.error_report
          /\ assessments' = Append(assessments, assessment.node_needs_transform)
          /\ IF result.raised
                THEN /\ status' = "raised"
                     /\ exn' = result.exn
                     /\ UNCHANGED <<tgt, copy_context, next>>
             ELSE /\ tgt' = tgt \o result.nodes
                  /\ copy_context' = Append(copy_context, Len(tgt) + Len(result.nodes))
                  /\ next' = next + 1
                  /\ UNCHANGED <<status, exn>>
    /\ UNCHANGED <<src, sizer, pass, first, wvars, svars, avars, dvars>>

VisitNode ==
    /\ status = "running"
    /\ next <= Len(src)
    /\ LET original == next
           inputs == [k \in DOMAIN src[original].inputs |->
                         copy_context[src[original].inputs[k]]]
           assessment == assess_node(original)
           result == IF assessment.node_needs_transform
                         THEN transform_node(original, inputs)
                     ELSE clone(original, inputs)
       IN /\ error_report' = error_report \o assessment.error_report
          /\ assessments' = Append(assessments, assessment.node_needs_transform)
          /\ IF result.raised
                THEN /\ status' = "raised"
                     /\ exn' = result.exn
                     /\ UNCHANGED <<tgt, copy_context, next>>
             ELSE /\ tgt' = tgt \o result.nodes
                  /\ copy_context' = Append(copy_context, Len(tgt) + Len(result.nodes))
                  /\ next' = next + 1
                  /\ UNCHANGED <<status, exn>>
    /\ UNCHANGED <<src, sizer, pass, first, wvars, svars, avars, dvars>>

\* the traversal has visited every node: the pass returns the target graph
\* and the report
Finish ==
    /\ status = "running"
    /\ next > Len(src)
    /\ status' = "done"
    /\ UNCHANGED <<src, sizer, tgt, copy_context, assessments, error_report, next, exn,
                   pass, first, wvars, svars, avars, dvars>>

Next == VisitNode \/ Finish

Spec == Init /\ [][Next]_vars


(***************************************************************************)
(* Vocabulary of the properties.                                           *)
(***************************************************************************)
\* the pass has given source node i a replacement
Visited(i) == i \in DOMAIN copy_context

\* the replacement of source node i
Image(i) == tgt[copy_context[i]]

\* the replacements of the operands of source node i, in operand order
NewInputs(i) == [k \in DOMAIN src[i].inputs |-> copy_context[src[i].inputs[k]]]

\* the pass ended with an exception of the rewrite of source node i
RaisedAt(i) == status = "raised" /\ next = i

\* the category and the size of the k-th operand of source node i
Cat(i, k) == ElementTypeOfSize(sizer[src[i].inputs[k]])
OperandSize(i, k) == sizer[src[i].inputs[k]]

\* the number of nodes the rewrite of source node i added to the target graph
Added(i) == copy_context[i] - (IF i = 1 THEN 0 ELSE copy_context[i - 1])

\* every record of the report comes from the size assessment
OnlySizeErrors == \A e \in DOMAIN error_report : error_report[e].kind = "size"

IsMult2(i) == src[i].kind = "Mult" /\ Len(src[i].inputs) = 2

UnsizedMsg == "cannot multiply an unsized quantity"

(***************************************************************************)
(* C1 - multiplication of a scalar and an array                            *)
(***************************************************************************)
\* C1 (as stated): every two-operand multiplication with exactly one SCALAR
\* operand and one operand of any other category is rewritten, without
\* failing, to a scale node over (replacement of the scalar, replacement of
\* the other operand), whichever side the scalar was on.
C1_ScaleForEveryNonScalar ==
    \A i \in DOMAIN src : \A a, b \in {1, 2} :
        (IsMult2(i) /\ a # b /\ Cat(i, a) = SCALAR /\ Cat(i, b) # SCALAR) =>
            /\ ~RaisedAt(i)
            /\ Visited(i) =>
                 Image(i) = Node("MatrixScale", <<NewInputs(i)[a], NewInputs(i)[b]>>, 0)

\* C1 (amended): every two-operand multiplication with exactly one SCALAR
\* operand and one sized non-scalar operand (MATRIX or HIGHER-RANK) is
\* rewritten, without failing, to a scale node over (replacement of the
\* scalar, replacement of the array), whichever side the scalar was on.
C1_ScaleScalarFirst ==
    \A i \in DOMAIN src : \A a, b \in {1, 2} :
        (IsMult2(i) /\ a # b /\ Cat(i, a) = SCALAR /\ Cat(i, b) \in {MATRIX, TENSOR}) =>
            /\ ~RaisedAt(i)
            /\ Visited(i) =>
                 Image(i) = Node("MatrixScale", <<NewInputs(i)[a], NewInputs(i)[b]>>, 0)

\* C1 witness: a multiplication whose scalar is the right operand has been
\* rewritten to a scale node that names the scalar first
C1_Witness ==
    \E i \in DOMAIN src :
        /\ IsMult2(i) /\ Cat(i, 1) = MATRIX /\ Cat(i, 2) = SCALAR
        /\ Visited(i)
        /\ Image(i).kind = "MatrixScale"
        /\ Image(i).inputs = <<copy_context[src[i].inputs[2]], copy_context[src[i].inputs[1]]>>

(***************************************************************************)
(* C2 - multiplication with an operand count other than two                *)
(***************************************************************************)
\* C2 (as stated): a multiplication whose operand count is not 2 makes the
\* pass raise when it processes the node, and the node gets no clone in the
\* target graph.
C2_ArityRaises ==
    \A i \in DOMAIN src :
        (src[i].kind = "Mult" /\ Len(src[i].inputs) # 2) =>
            /\ ~Visited(i)
            /\ status # "done"

\* C2 (amended): a multiplication whose operand count is not 2 is not
\* tensorized and raises nothing: the pass finds it ineligible and clones it
\* as a multiplication over the replacements of its operands.
C2_ArityCloned ==
    \A i \in DOMAIN src :
        (src[i].kind = "Mult" /\ Len(src[i].inputs) # 2) =>
            /\ ~RaisedAt(i)
            /\ i \in DOMAIN assessments => ~assessments[i]
            /\ Visited(i) => /\ Image(i) = Node("Mult", NewInputs(i), 0)
                             /\ Added(i) = 1

\* C2 witness: a multiplication of three operands has been cloned
C2_Witness ==
    \E i \in DOMAIN src :
        /\ src[i].kind = "Mult" /\ Len(src[i].inputs) = 3
        /\ Visited(i)
        /\ Image(i).kind = "Mult" /\ Len(Image(i).inputs) = 3

(***************************************************************************)
(* C3 - an unsized operand of a multiplication: reported or thrown         *)
(***************************************************************************)
\* C3 (as stated): when the rewrite of a two-operand multiplication meets an
\* unsized operand, no exception is thrown; the problem is a record of the
\* error report and the pass goes on.
C3_UnsizedReported ==
    \A i \in DOMAIN src :
        (IsMult2(i) /\ \E k \in {1, 2} : OperandSize(i, k) = Unsized) =>
            /\ ~RaisedAt(i)
            /\ next > i => \E e \in DOMAIN error_report : error_report[e].node = i

\* C3 (amended): when the rewrite of a two-operand multiplication meets an
\* unsized operand, the problem is thrown as an exception that ends the pass
\* at that node: the node never gets a replacement, the pass never
\* completes, and the error report holds no record of the problem.
C3_UnsizedThrown ==
    \A i \in DOMAIN src :
        (IsMult2(i) /\ \E k \in {1, 2} : OperandSize(i, k) = Unsized) =>
            /\ ~Visited(i)
            /\ status # "done"
            /\ status = "raised" => (next = i /\ exn = UnsizedMsg)
            /\ OnlySizeErrors
            /\ next <= i

\* C3 witness: the pass has ended with the exception at a multiplication
\* with an unsized operand
C3_Witness ==
    \E i \in DOMAIN src :
        /\ IsMult2(i) /\ OperandSize(i, 1) = Unsized
        /\ RaisedAt(i) /\ exn = UnsizedMsg
        /\ error_report = <<>>

(***************************************************************************)
(* C4 - which unsized operands make the multiplication rewrite fail        *)
(***************************************************************************)
\* C4 (as stated): the rewrite fails when neither operand is sized; when
\* exactly one operand is unsized the rewrite does not fail and the output
\* is an elementwise multiplication, a scale or a plain multiplication.
C4_FailsOnlyWhenBothUnsized ==
    \A i \in DOMAIN src :
        IsMult2(i) =>
            /\ (OperandSize(i, 1) = Unsized /\ OperandSize(i, 2) = Unsized) => ~Visited(i)
            /\ ((OperandSize(i, 1) = Unsized) # (OperandSize(i, 2) = Unsized)) =>
                 /\ ~RaisedAt(i)
                 /\ Visited(i) => Image(i).kind \in {"ElementwiseMult", "MatrixScale", "Mult"}

\* C4 (amended): the rewrite fails when at least one of the two operands is
\* unsized; when both operands are sized it does not fail and the output is
\* an elementwise multiplication, a scale or a plain multiplication.
C4_FailsWhenAnyUnsized ==
    \A i \in DOMAIN src :
        IsMult2(i) =>
            /\ (OperandSize(i, 1) = Unsized \/ OperandSize(i, 2) = Unsized) =>
                 /\ ~Visited(i)
                 /\ next = i /\ status # "running" => RaisedAt(i) /\ exn = UnsizedMsg
            /\ (OperandSize(i, 1) # Unsized /\ OperandSize(i, 2) # Unsized) =>
                 /\ ~RaisedAt(i)
                 /\ Visited(i) => Image(i).kind \in {"ElementwiseMult", "MatrixScale", "Mult"}

\* C4 witness: the rewrite has failed at a multiplication with exactly one
\* unsized operand, the right one
C4_Witness ==
    \E i \in DOMAIN src :
        /\ IsMult2(i)
        /\ OperandSize(i, 1) # Unsized /\ OperandSize(i, 2) = Unsized
        /\ RaisedAt(i) /\ exn = UnsizedMsg


(***************************************************************************)
(* C5 - division of a matrix by a scalar                                   *)
(***************************************************************************)
\* C5: every two-operand division whose first operand is MATRIX and whose
\* second operand is SCALAR is rewritten, without failing, to
\* scale(div(one, b'), a'): three new nodes, a constant of value 1, the
\* division of that constant by the replacement of the divisor, and the
\* scale of the replacement of the dividend by that quotient.
C5_DivBecomesScaleOfReciprocal ==
    \A i \in DOMAIN src :
        (/\ src[i].kind = "Div" /\ Len(src[i].inputs) = 2
         /\ Cat(i, 1) = MATRIX /\ Cat(i, 2) = SCALAR) =>
            /\ ~RaisedAt(i)
            /\ Visited(i) =>
                 LET scale == Image(i)
                     quotient == tgt[scale.inputs[1]]
                     one == tgt[quotient.inputs[1]]
                 IN /\ scale.kind = "MatrixScale" /\ Len(scale.inputs) = 2
                    /\ scale.inputs[2] = copy_context[src[i].inputs[1]]
                    /\ quotient.kind = "Div" /\ Len(quotient.inputs) = 2
                    /\ quotient.inputs[2] = copy_context[src[i].inputs[2]]
                    /\ one.kind = "PosReal" /\ one.value = 1 /\ one.inputs = <<>>
                    /\ Added(i) = 3

\* C5 witness: a division of a matrix by a scalar has been rewritten to a
\* scale node
C5_Witness ==
    \E i \in DOMAIN src :
        /\ src[i].kind = "Div" /\ Cat(i, 1) = MATRIX /\ Cat(i, 2) = SCALAR
        /\ Visited(i)
        /\ Image(i).kind = "MatrixScale"

RECURSIVE IsFold(_, _, _)
IsFold(t, i, k) ==
    IF k = 1 THEN t = NewInputs(i)[1]
    ELSE /\ tgt[t].kind = "MatrixAdd"
         /\ Len(tgt[t].inputs) = 2
         /\ tgt[t].inputs[2] = NewInputs(i)[k]
         /\ IsFold(tgt[t].inputs[1], i, k - 1)

\* C7: a summation with an operand of category MATRIX is rewritten to one
\* array-sum node over the left-to-right fold of matrix addition over its
\* replaced operands in their order, n - 1 matrix additions for n operands;
\* a summation with no MATRIX operand is rewritten to the plain sum of its
\* replaced operands in their order.
C7_SumFoldsLeftToRight ==
    \A i \in DOMAIN src :
        (src[i].kind = "Sum" /\ Len(src[i].inputs) >= 1) =>
            /\ ~RaisedAt(i)
            /\ Visited(i) =>
                 IF \E k \in DOMAIN src[i].inputs : Cat(i, k) = MATRIX
                     THEN /\ Image(i).kind = "MatrixSum"
                          /\ Len(Image(i).inputs) = 1
                          /\ IsFold(Image(i).inputs[1], i, Len(src[i].inputs))
                          /\ Added(i) = Len(src[i].inputs)
                 ELSE /\ Image(i) = Node("Sum", NewInputs(i), 0)
                      /\ Added(i) = 1

\* C7 witness: a summation of three operands, only the last a matrix, has
\* been folded
C7_Witness ==
    \E i \in DOMAIN src :
        /\ src[i].kind = "Sum" /\ Len(src[i].inputs) = 3
        /\ Cat(i, 1) = SCALAR /\ Cat(i, 2) # MATRIX /\ Cat(i, 3) = MATRIX
        /\ Visited(i)
        /\ Image(i).kind = "MatrixSum"
        /\ tgt[Image(i).inputs[1]].kind = "MatrixAdd"

(***************************************************************************)
(* C8 - elementwise unary operators                                        *)
(***************************************************************************)
ElementwiseUnary == {"Complement", "Exp", "Log", "Log1mexp", "Negate"}

\* the array-valued variant of an elementwise unary operator
MatrixVariant(kind) ==
    CASE kind = "Complement" -> "MatrixComplement"
      [] kind = "Exp" -> "MatrixExp"
      [] kind = "Log" -> "MatrixLog"
      [] kind = "Log1mexp" -> "MatrixLog1mexp"
      [] kind = "Negate" -> "MatrixNegate"

\* source node i has a consumer of an unsupported kind
HasUnsupportedConsumer(i) ==
    \E j \in DOMAIN src :
        /\ src[j].kind \in _unsupported_nodes
        /\ \E k \in DOMAIN src[j].inputs : src[j].inputs[k] = i

\* C8 (as stated): every complement, exponential, log, log1mexp and negation
\* node over a MATRIX operand is rewritten to the array-valued variant of
\* its operator; over any other operand it stays the scalar operator over
\* its replaced operand.
C8_UnaryMatrixVariant ==
    \A i \in DOMAIN src :
        (src[i].kind \in ElementwiseUnary /\ Visited(i)) =>
            IF Cat(i, 1) = MATRIX
                THEN Image(i) = Node(MatrixVariant(src[i].kind), NewInputs(i), 0)
            ELSE Image(i) = Node(src[i].kind, NewInputs(i), 0)

\* C8 (amended): every complement, exponential, log and log1mexp node, and
\* every negation node none of whose consumers is of an unsupported kind,
\* is rewritten to the array-valued variant of its operator when its operand
\* is MATRIX and stays the scalar operator over its replaced operand when it
\* is not; a negation with a consumer of an unsupported kind stays the
\* scalar negation whatever its operand.
C8_UnaryMatrixVariantWhenEligible ==
    \A i \in DOMAIN src :
        src[i].kind \in ElementwiseUnary =>
            /\ ~RaisedAt(i)
            /\ Visited(i) =>
                 /\ Added(i) = 1
                 /\ IF /\ Cat(i, 1) = MATRIX
                       /\ ~(src[i].kind = "Negate" /\ HasUnsupportedConsumer(i))
                        THEN Image(i) = Node(MatrixVariant(src[i].kind), NewInputs(i), 0)
                    ELSE Image(i) = Node(src[i].kind, NewInputs(i), 0)

\* C8 witness: a log1mexp of a matrix has been rewritten to its array variant
C8_Witness ==
    \E i \in DOMAIN src :
        /\ src[i].kind = "Log1mexp" /\ Cat(i, 1) = MATRIX
        /\ Visited(i)
        /\ Image(i).kind = "MatrixLog1mexp"

(***************************************************************************)
(* C9 - addition                                                           *)
(***************************************************************************)
\* C9: an addition is always assessed eligible; it is rewritten to a single
\* matrix addition of its replaced operands exactly when both are MATRIX,
\* and to a scalar addition of its replaced operands when either is SCALAR,
\* HIGHER-RANK or UNKNOWN.
C9_AddMatrixIffBothMatrix ==
    \A i \in DOMAIN src :
        src[i].kind = "Add" =>
            /\ ~RaisedAt(i)
            /\ i \in DOMAIN assessments => assessments[i]
            /\ Visited(i) =>
                 /\ Added(i) = 1
                 /\ Image(i).inputs = NewInputs(i)
                 /\ Image(i).kind \in {"Add", "MatrixAdd"}
                 /\ Image(i).kind = "MatrixAdd" <=>
                        (Cat(i, 1) = MATRIX /\ Cat(i, 2) = MATRIX)

\* C9 witness: an addition of a matrix and a higher-rank operand has been
\* cloned as a scalar addition
C9_Witness ==
    \E i \in DOMAIN src :
        /\ src[i].kind = "Add" /\ Cat(i, 1) = MATRIX /\ Cat(i, 2) = TENSOR
        /\ Visited(i) /\ assessments[i]
        /\ Image(i).kind = "Add"

(***************************************************************************)
(* C10 - eligibility of a negation                                         *)
(***************************************************************************)
\* C10: a negation is assessed eligible exactly when none of the consumers
\* of the original node is of an unsupported kind; a negation with such a
\* consumer is cloned as a scalar negation, also over a MATRIX operand.
C10_NegateEligibleIffNoUnsupportedConsumer ==
    \A i \in DOMAIN src :
        src[i].kind = "Negate" =>
            /\ i \in DOMAIN assessments =>
                 (assessments[i] <=> ~HasUnsupportedConsumer(i))
            /\ (HasUnsupportedConsumer(i) /\ Visited(i)) =>
                 Image(i) = Node("Negate", NewInputs(i), 0)

\* C10 witness: a negation of a matrix with a consumer of an unsupported
\* kind and a consumer of a supported kind has been cloned
C10_Witness ==
    \E i \in DOMAIN src :
        /\ src[i].kind = "Negate" /\ Cat(i, 1) = MATRIX
        /\ \E j \in outputs(i) : src[j].kind = "Log1p"
        /\ \E j \in outputs(i) : src[j].kind = "Exp"
        /\ Visited(i) /\ ~assessments[i]
        /\ Image(i).kind = "Negate"


(***************************************************************************)
(* C11 - multiplication of two arrays, of two scalars                      *)
(***************************************************************************)
\* C11: a two-operand multiplication whose operands are both sized is
\* rewritten to an elementwise multiplication of its replaced operands in
\* their order when neither operand is SCALAR, and to a plain multiplication
\* of its replaced operands when both are SCALAR; neither case gives a scale
\* node.
C11_ElementwiseOrPlain ==
    \A i \in DOMAIN src :
        (/\ IsMult2(i)
         /\ OperandSize(i, 1) # Unsized /\ OperandSize(i, 2) # Unsized
         /\ (Cat(i, 1) = SCALAR) = (Cat(i, 2) = SCALAR)) =>
            /\ ~RaisedAt(i)
            /\ Visited(i) =>
                 /\ Added(i) = 1
                 /\ Image(i) = Node(IF Cat(i, 1) = SCALAR THEN "Mult" ELSE "ElementwiseMult",
                                    NewInputs(i), 0)
                 /\ \A t \in DOMAIN tgt : tgt[t].kind # "MatrixScale"

\* C11 witness: a multiplication of a matrix and a higher-rank operand has
\* been rewritten to an elementwise multiplication
C11_Witness ==
    \E i \in DOMAIN src :
        /\ IsMult2(i) /\ Cat(i, 1) = MATRIX /\ Cat(i, 2) = TENSOR
        /\ Visited(i)
        /\ Image(i).kind = "ElementwiseMult"


(***************************************************************************)
(* The category resolver on its own: _element_type applied to one size,    *)
(* any size of rank up to MaxRank with dimensions up to MaxDim, or Unsized.*)
(***************************************************************************)
AllSizes == {Unsized} \cup UNION {[1..r -> 0..MaxDim] : r \in 0..MaxRank}

InitShape ==
    /\ shape \in AllSizes
    /\ element_type = "none"
    /\ TensorizerIdle
    /\ WindowIdle
    /\ AdapterIdle
    /\ UtilsIdle

Classify ==
    /\ element_type = "none"
    /\ element_type' = ElementTypeOfSize(shape)
    /\ UNCHANGED <<shape, tvars, wvars, avars, dvars>>

NextShape == Classify

SpecShape == InitShape /\ [][NextShape]_vars

(***************************************************************************)
(* C12 - the category is a total function of the size                      *)
(***************************************************************************)
AllOnes(sz) == \A d \in DOMAIN sz : sz[d] = 1

\* C12: every size gets one of the four categories: UNKNOWN exactly the
\* unsized size, SCALAR exactly the sizes of rank 0 or with every dimension
\* equal to 1, MATRIX exactly the non-scalar sizes of rank 2 and the sizes of
\* rank 1 whose dimension is greater than 1.
C12_CategoryOfSize ==
    element_type # "none" =>
        /\ element_type \in {TENSOR, SCALAR, MATRIX, UNKNOWN}
        /\ element_type = UNKNOWN <=> shape = Unsized
        /\ element_type = SCALAR <=> (shape # Unsized /\ AllOnes(shape))
        /\ element_type = MATRIX <=>
              /\ shape # Unsized
              /\ ~AllOnes(shape)
              /\ \/ Len(shape) = 2
                 \/ Len(shape) = 1 /\ shape[1] > 1

\* C12 witness: a vector of more than one element has been classified MATRIX
C12_Witness ==
    /\ Len(shape) = 1 /\ shape # Unsized /\ shape[1] > 1
    /\ element_type = MATRIX

(***************************************************************************)
(* C13 - HIGHER-RANK means rank three or more                              *)
(***************************************************************************)
\* C13: every size classified HIGHER-RANK (TENSOR) has rank at least 3; no
\* size of rank 0, 1 or 2 with non-negative dimensions, a dimension of size
\* 0 included, is classified HIGHER-RANK.
C13_TensorHasRankThree ==
    element_type = TENSOR => Len(shape) >= 3


(***************************************************************************)
(* C14 - nodes with no applicable rule                                     *)
(***************************************************************************)
\* a rewrite rule applies to source node i: its kind is in the rule table
\* and the eligibility predicate of the kind holds
RuleApplies(i) ==
    LET kind == src[i].kind
    IN \/ kind \in {"Add", "Complement", "Exp", "Log", "Log1mexp", "Sum"}
       \/ kind = "Mult" /\ Len(src[i].inputs) = 2
       \/ kind = "Div" /\ Len(src[i].inputs) = 2 /\ Cat(i, 1) = MATRIX /\ Cat(i, 2) = SCALAR
       \/ kind = "Negate" /\ ~HasUnsupportedConsumer(i)

\* C14: a node with no applicable rule (its kind is not in the rule table or
\* its eligibility predicate is false) gets one replacement of the same
\* operator kind and operand count whose operands are the replacements of
\* its operands in the same order.
C14_NoRuleMeansClone ==
    \A i \in DOMAIN src :
        ~RuleApplies(i) =>
            /\ ~RaisedAt(i)
            /\ Visited(i) =>
                 /\ Added(i) = 1
                 /\ Image(i).kind = src[i].kind
                 /\ Len(Image(i).inputs) = Len(src[i].inputs)
                 /\ Image(i).inputs = NewInputs(i)

\* C14 witness: a power of two matrices, a kind without rule, has been cloned
C14_Witness ==
    \E i \in DOMAIN src :
        /\ src[i].kind = "Power" /\ Cat(i, 1) = MATRIX /\ Cat(i, 2) = MATRIX
        /\ Visited(i)
        /\ Image(i).kind = "Power" /\ Image(i).inputs = NewInputs(i)

(***************************************************************************)
(* C17 - assess_node                                                       *)
(***************************************************************************)
\* the records of the report that name source node i
RecordsOf(i) == SelectSeq(error_report, LAMBDA e : e.node = i)

\* C17: every visited node has been assessed, whether or not its kind has a
\* rule and also when its rewrite raised afterwards; the report holds the
\* size error of the node when there is one and nothing for the node when
\* there is none; and the flag of the assessment is the eligibility of the
\* node, whether or not a size error was found.
C17_AssessEveryNode ==
    /\ status = "raised" => Len(assessments) = next
    /\ status \in {"running", "done"} => Len(assessments) = next - 1
    /\ \A i \in DOMAIN assessments :
          /\ RecordsOf(i) = size_error(i)
          /\ assessments[i] <=> RuleApplies(i)

\* C17 witness: a node of a kind without rule has a size error in the
\* report, and the flag of its assessment is false
C17_Witness ==
    \E i \in DOMAIN assessments :
        /\ src[i].kind = "Power"
        /\ RecordsOf(i) # <<>>
        /\ ~assessments[i]


(***************************************************************************)
(* C15 - sharing                                                           *)
(***************************************************************************)
\* the nodes the rewrite of source node j added to the target graph
AddedRange(j) == (copy_context[j] - Added(j) + 1)..copy_context[j]

\* the consumers of source node i
ConsumersOf(i) ==
    {j \in DOMAIN src : \E k \in DOMAIN src[j].inputs : src[j].inputs[k] = i}

\* C15: a source node is assessed and rewritten at most once and has at most
\* one replacement, the replacements of two source nodes are two nodes, and
\* the rewrite of every consumer of a source node refers to that one
\* replacement: every operand of a node added for the consumer is a node
\* added for the consumer or the replacement of an operand of the consumer.
C15_SharedReplacement ==
    /\ Len(assessments) <= Len(src)
    /\ Len(copy_context) <= Len(src)
    /\ \A i, j \in DOMAIN copy_context : i < j => copy_context[i] < copy_context[j]
    /\ Len(copy_context) > 0 => copy_context[Len(copy_context)] = Len(tgt)
    /\ \A i \in DOMAIN src : \A j \in ConsumersOf(i) :
          Visited(j) =>
              /\ \E t \in AddedRange(j) : \E x \in DOMAIN tgt[t].inputs :
                    tgt[t].inputs[x] = copy_context[i]
              /\ \A t \in AddedRange(j) : \A x \in DOMAIN tgt[t].inputs :
                    \/ tgt[t].inputs[x] \in AddedRange(j)
                    \/ \E k \in DOMAIN src[j].inputs :
                          tgt[t].inputs[x] = copy_context[src[j].inputs[k]]

\* C15 witness: a source node with two consumers, one cloned and one
\* tensorized, both rewritten over the one replacement of the node
C15_Witness ==
    \E i \in DOMAIN src : \E j1, j2 \in ConsumersOf(i) :
        /\ j1 # j2
        /\ Visited(j1) /\ Visited(j2)
        /\ Image(j1) = Node("Log1p", <<copy_context[i]>>, 0)
        /\ Image(j2) = Node("MatrixExp", <<copy_context[i]>>, 0)


(***************************************************************************)
(* The pass run again on its own output.  The target graph of a pass that  *)
(* succeeded (no exception, empty report) becomes the source graph of the  *)
(* next pass, with a new cloner, a new target graph and a new report.      *)
(***************************************************************************)
Max(a, b) == IF a >= b THEN a ELSE b

\* the size of an elementwise operation over operands of sizes s and t
BroadcastSize(s, t) ==
    IF s = Unsized \/ t = Unsized \/ ~Broadcastable(s, t) THEN Unsized
    ELSE LET n == Max(Len(s), Len(t))
             dim(u, k) == IF k > n - Len(u) THEN u[k - (n - Len(u))] ELSE 1
         IN [k \in 1..n |-> Max(dim(s, k), dim(t, k))]

\* Sizer on any node of the target graph: a replacement has the size of the
\* node it replaces; of the nodes a rewrite adds besides the replacement,
\* the constant one is a scalar and the quotient and the matrix additions of
\* the fold have the size their operands broadcast to
RECURSIVE SizeOfTarget(_)
SizeOfTarget(t) ==
    IF \E s \in DOMAIN copy_context : copy_context[s] = t THEN sizer_new(t)
    ELSE IF tgt[t].kind = "PosReal" THEN <<>>
    ELSE BroadcastSize(SizeOfTarget(tgt[t].inputs[1]), SizeOfTarget(tgt[t].inputs[2]))

Rerun ==
    /\ status = "done"
    /\ pass = 1
    /\ error_report = <<>>
    /\ src' = tgt
    /\ sizer' = [t \in DOMAIN tgt |-> SizeOfTarget(t)]
    /\ first' = tgt
    /\ pass' = 2
    /\ tgt' = <<>>
    /\ copy_context' = <<>>
    /\ assessments' = <<>>
    /\ next' = 1
    /\ status' = "running"
    /\ UNCHANGED <<error_report, exn, wvars, svars, avars, dvars>>

NextTwice == VisitNode \/ Finish \/ Rerun

SpecTwice == Init /\ [][NextTwice]_vars

(***************************************************************************)
(* C16 - the pass on its own output                                        *)
(***************************************************************************)
\* C16: the pass over the output of a pass that succeeded raises nothing,
\* applies no rule a second time - every node of that output gets one
\* replacement, a node of the same kind and value over the same operands -
\* and ends with a target graph equal to the one it was given.
C16_SecondPassIsIdentity ==
    pass = 2 =>
        /\ status # "raised"
        /\ \A i \in DOMAIN copy_context :
              /\ copy_context[i] = i
              /\ tgt[i] = src[i]
        /\ Len(tgt) = Len(copy_context)
        /\ status = "done" => tgt = first

\* C16 witness: the second pass has ended on the output of a pass that
\* rewrote a division to scale(div(one, b), a) and tensorized a consumer
C16_Witness ==
    /\ pass = 2 /\ status = "done"
    /\ tgt = first
    /\ \E t \in DOMAIN tgt :
          /\ tgt[t].kind = "MatrixScale"
          /\ tgt[tgt[t].inputs[1]].kind = "Div"
    /\ \E t \in DOMAIN tgt : tgt[t].kind = "MatrixExp"


(***************************************************************************)
(* WindowScheme (hmc_utils.py): the adaptation iterations split into       *)
(* windows.  int(0.15 * n) and int(0.9 * n) are the integer quotients      *)
(* 15n / 100 and 9n / 10 for every n the constructor takes this branch on. *)
(***************************************************************************)
WindowScheme__init__(n) ==
    IF n < 20
        THEN [start_iter |-> n, end_iter |-> n, window_size |-> 0]
    ELSE IF n < 150
        THEN [start_iter |-> (15 * n) \div 100,
              end_iter |-> (9 * n) \div 10,
              window_size |-> ((9 * n) \div 10) - ((15 * n) \div 100)]
    ELSE [start_iter |-> 75, end_iter |-> n - 50, window_size |-> 25]

\* is_in_window that takes the end iteration for part of the window
is_in_window_inclusive == _iteration >= _start_iter /\ _iteration <= _end_iter

is_in_window == _iteration >= _start_iter /\ _iteration < _end_iter

is_end_window == _iteration - _start_iter = _window_size - 1

InitWindow ==
    /\ \E n \in 0..MaxSamples :
          /\ num_adaptive_samples = n
          /\ _start_iter = WindowScheme__init__(n).start_iter
          /\ _end_iter = WindowScheme__init__(n).end_iter
          /\ _window_size = WindowScheme__init__(n).window_size
    /\ _iteration = 0
    /\ closed_windows = <<>>
    /\ open_window = 0
    /\ TensorizerIdle
    /\ ShapeIdle
    /\ AdapterIdle
    /\ UtilsIdle

\* step that doubles the window at every end of window, whatever remains
\* before _end_iter
step_always_doubles ==
    /\ _iteration < MaxIterations
    /\ IF is_end_window
          THEN /\ _start_iter' = _iteration + 1
               /\ _window_size' = _window_size * 2
       ELSE UNCHANGED <<_start_iter, _window_size>>
    /\ _iteration' = _iteration + 1
    /\ closed_windows' = IF is_in_window /\ is_end_window
                             THEN Append(closed_windows, open_window + 1)
                         ELSE closed_windows
    /\ open_window' = IF ~is_in_window THEN open_window
                      ELSE IF is_end_window THEN 0
                      ELSE open_window + 1
    /\ UNCHANGED <<num_adaptive_samples, _end_iter, tvars, svars, avars, dvars>>

\* WindowScheme.step, called once per iteration; the two last conjuncts
\* keep the record of the windows: an in-window iteration joins the open
\* window, and closes it when it is an is_end_window iteration
step ==
    /\ _iteration < MaxIterations
    /\ IF is_end_window
          THEN /\ _start_iter' = _iteration + 1
               /\ IF _end_iter - (_iteration + 1) < _window_size * 4
                     THEN _window_size' = _end_iter - (_iteration + 1)
                  ELSE _window_size' = _window_size * 2
       ELSE UNCHANGED <<_start_iter, _window_size>>
    /\ _iteration' = _iteration + 1
    /\ closed_windows' = IF is_in_window /\ is_end_window
                             THEN Append(closed_windows, open_window + 1)
                         ELSE closed_windows
    /\ open_window' = IF ~is_in_window THEN open_window
                      ELSE IF is_end_window THEN 0
                      ELSE open_window + 1
    /\ UNCHANGED <<num_adaptive_samples, _end_iter, tvars, svars, avars, dvars>>

NextWindow == step

SpecWindow == InitWindow /\ [][NextWindow]_vars

(***************************************************************************)
(* C18 - the windows grow                                                  *)
(***************************************************************************)
\* C18: with step called once per iteration from iteration 0, the windows
\* closed so far are of increasing size: each is at least as long as the
\* window before it.
C18_WindowsGrow ==
    \A k \in 1..(Len(closed_windows) - 1) : closed_windows[k] <= closed_windows[k + 1]

(***************************************************************************)
(* C19 - no window for fewer than 20 adaptive samples                      *)
(***************************************************************************)
\* C19: when num_adaptive_samples is less than 20, is_in_window is false at
\* every iteration, after any number of calls of step, and no window is
\* ever recorded.
C19_NoWindowBelowTwenty ==
    num_adaptive_samples < 20 =>
        /\ ~is_in_window
        /\ closed_windows = <<>>
        /\ open_window = 0

\* C19 witness: with 19 adaptive samples the iteration has reached the start
\* iteration, after an is_end_window iteration, and is not in a window
C19_Witness ==
    /\ num_adaptive_samples = 19
    /\ _iteration = _start_iter
    /\ _iteration = 19
    /\ ~is_in_window

(***************************************************************************)
(* C20 - the end of a window lies in the window                            *)
(***************************************************************************)
\* C20: in every state reached from construction by calls of step,
\* is_end_window implies is_in_window.
C20_EndWindowInWindow == is_end_window => is_in_window


(***************************************************************************)
(* C21 - the windows tile the adaptation range                             *)
(***************************************************************************)
\* the sum of the sizes of the windows closed so far
RECURSIVE SumOf(_)
SumOf(q) == IF q = <<>> THEN 0 ELSE q[1] + SumOf(Tail(q))

\* the number of iterations before iteration i that lie in the range lo..hi-1
PassedIn(i, lo, hi) ==
    IF i <= lo THEN 0 ELSE IF i >= hi THEN hi - lo ELSE i - lo

\* C21: for num_adaptive_samples >= 20, _end_iter stays what the constructor
\* made it, _start_iter never exceeds _end_iter, is_in_window holds exactly
\* at the iterations from the initial _start_iter to _end_iter - 1,
\* iteration _end_iter - 1 is an is_end_window iteration, and the windows
\* recorded cover exactly the in-window iterations passed: none is open
\* once _end_iter is reached.
C21_WindowsTileRange ==
    num_adaptive_samples >= 20 =>
        LET first_iter == WindowScheme__init__(num_adaptive_samples).start_iter
            last_iter == WindowScheme__init__(num_adaptive_samples).end_iter
        IN /\ _end_iter = last_iter
           /\ first_iter < last_iter
           /\ _start_iter <= _end_iter
           /\ is_in_window <=> (first_iter <= _iteration /\ _iteration < last_iter)
           /\ _iteration = last_iter - 1 => is_end_window
           /\ SumOf(closed_windows) + open_window
                  = PassedIn(_iteration, first_iter, last_iter)
           /\ _iteration >= last_iter =>
                  /\ open_window = 0
                  /\ _start_iter = _end_iter
                  /\ ~is_end_window

\* C21 witness: the iterations have passed _end_iter after three windows,
\* each the double of the one before
C21_Witness ==
    /\ num_adaptive_samples >= 20
    /\ _iteration > _end_iter
    /\ Len(closed_windows) = 3
    /\ closed_windows[2] = 2 * closed_windows[1]
    /\ closed_windows[3] = 2 * closed_windows[2]
    /\ open_window = 0


(***************************************************************************)
(* MassMatrixAdapter and WelfordCovariance (hmc_utils.py), for a mass      *)
(* matrix of size 1: a position is one number.  The numbers of the         *)
(* accumulator are exact rationals <<numerator, denominator>> in lowest    *)
(* terms with a positive denominator.                                      *)
(***************************************************************************)
Abs(a) == IF a < 0 THEN -a ELSE a

RECURSIVE GCD(_, _)
GCD(a, b) == IF b = 0 THEN a ELSE GCD(b, a % b)

Norm(n, d) == LET g == GCD(Abs(n), d) IN <<n \div g, d \div g>>

RAdd(a, b) == Norm(a[1] * b[2] + b[1] * a[2], a[2] * b[2])
RSub(a, b) == Norm(a[1] * b[2] - b[1] * a[2], a[2] * b[2])
RMul(a, b) == Norm(a[1] * b[1], a[2] * b[2])
RDivInt(a, k) == Norm(a[1], a[2] * k)

Positions == 0..MaxCoordinate

TooFewSamples == "Number of samples is too small to estimate the (co)variance"

\* WelfordCovariance.__init__
WelfordCovariance__init__ == [count |-> 0, mean |-> <<0, 1>>, M2 |-> <<0, 1>>]

\* WelfordCovariance.step on the accumulator acc; for a matrix of size 1
\* the outer product of the other branch is the same product
WelfordCovariance_step(acc, sample) ==
    LET count == acc.count + 1
        delta == RSub(<<sample, 1>>, acc.mean)
        mean == RAdd(acc.mean, RDivInt(delta, count))
        delta2 == RSub(<<sample, 1>>, mean)
    IN [count |-> count, mean |-> mean, M2 |-> RAdd(acc.M2, RMul(delta, delta2))]

\* WelfordCovariance.finalize (regularize = True): the exception or the
\* regularized covariance
WelfordCovariance_finalize(acc) ==
    IF acc.count < 2
        THEN [raised |-> TRUE, error |-> TooFewSamples, value |-> <<0, 1>>]
    ELSE LET covariance == RDivInt(acc.M2, acc.count - 1)
             scaled == RMul(covariance, <<acc.count, acc.count + 5>>)
             padding == Norm(5, 1000 * (acc.count + 5))
         IN [raised |-> FALSE, error |-> "", value |-> RAdd(scaled, padding)]

\* the accumulator of the adapter
Adapter == [count |-> _count, mean |-> _mean, M2 |-> _M2]

\* MassMatrixAdapter.__init__: the identity mass matrix, a normal momentum
\* distribution of scale 1, a new accumulator
InitAdapter ==
    /\ \E full_mass_matrix \in BOOLEAN : diagonal = ~full_mass_matrix
    /\ mass_inv = <<1, 1>>
    /\ momentum_dist = [family |-> "Normal", inverse_variance |-> <<1, 1>>]
    /\ _count = WelfordCovariance__init__.count
    /\ _mean = WelfordCovariance__init__.mean
    /\ _M2 = WelfordCovariance__init__.M2
    /\ warned = <<>>
    /\ adapter_status = "ok"
    /\ last_finalize = [calls |-> 0, positions |-> 0, warning |-> FALSE,
                        mass_inv |-> <<1, 1>>,
                        momentum_dist |-> [family |-> "Normal",
                                           inverse_variance |-> <<1, 1>>],
                        steps |-> 0]
    /\ TensorizerIdle
    /\ WindowIdle
    /\ ShapeIdle
    /\ UtilsIdle

\* MassMatrixAdapter.step; last_finalize.steps counts the positions passed
\* since construction or the last call of finalize
MassMatrixAdapter_step ==
    /\ adapter_status = "ok"
    /\ last_finalize.steps < MaxPositions
    /\ \E positions \in Positions :
          LET acc == WelfordCovariance_step(Adapter, positions)
          IN /\ _count' = acc.count
             /\ _mean' = acc.mean
             /\ _M2' = acc.M2
    /\ last_finalize' = [last_finalize EXCEPT !.steps = @ + 1]
    /\ UNCHANGED <<diagonal, mass_inv, momentum_dist, warned, adapter_status,
                   tvars, wvars, svars, dvars>>

\* finalize that replaces the accumulator in the try block, after the
\* assignment of mass_inv, and so keeps it when the estimate raises
MassMatrixAdapter_finalize_reset_in_try ==
    /\ adapter_status = "ok"
    /\ last_finalize.calls < MaxFinalize
    /\ LET estimate == WelfordCovariance_finalize(Adapter)
       IN /\ IF estimate.raised
                THEN /\ warned' = Append(warned, estimate.error)
                     /\ UNCHANGED <<mass_inv, momentum_dist, _count, _mean, _M2>>
             ELSE /\ momentum_dist' =
                        [family |-> IF diagonal THEN "Normal" ELSE "MultivariateNormal",
                         inverse_variance |-> estimate.value]
                  /\ mass_inv' = estimate.value
                  /\ _count' = WelfordCovariance__init__.count
                  /\ _mean' = WelfordCovariance__init__.mean
                  /\ _M2' = WelfordCovariance__init__.M2
                  /\ UNCHANGED warned
          /\ last_finalize' = [calls |-> last_finalize.calls + 1,
                               positions |-> last_finalize.steps,
                               warning |-> estimate.raised,
                               mass_inv |-> mass_inv,
                               momentum_dist |-> momentum_dist,
                               steps |-> 0]
    /\ UNCHANGED <<diagonal, adapter_status, tvars, wvars, svars, dvars>>

\* MassMatrixAdapter.finalize: the estimate of the accumulator becomes the
\* mass matrix and the momentum distribution (of scale 1 / sqrt(mass_inv),
\* or of precision mass_inv), a RuntimeError becomes a warning, and in both
\* cases the accumulator is replaced.  last_finalize keeps what the call
\* found: the positions passed, mass_inv and momentum_dist before the call.
MassMatrixAdapter_finalize ==
    /\ adapter_status = "ok"
    /\ last_finalize.calls < MaxFinalize
    /\ LET estimate == WelfordCovariance_finalize(Adapter)
       IN /\ IF estimate.raised
                THEN /\ warned' = Append(warned, estimate.error)
                     /\ UNCHANGED <<mass_inv, momentum_dist>>
             ELSE /\ momentum_dist' =
                        [family |-> IF diagonal THEN "Normal" ELSE "MultivariateNormal",
                         inverse_variance |-> estimate.value]
                  /\ mass_inv' = estimate.value
                  /\ UNCHANGED warned
          /\ last_finalize' = [calls |-> last_finalize.calls + 1,
                               positions |-> last_finalize.steps,
                               warning |-> estimate.raised,
                               mass_inv |-> mass_inv,
                               momentum_dist |-> momentum_dist,
                               steps |-> 0]
    /\ _count' = WelfordCovariance__init__.count
    /\ _mean' = WelfordCovariance__init__.mean
    /\ _M2' = WelfordCovariance__init__.M2
    /\ UNCHANGED <<diagonal, adapter_status, tvars, wvars, svars, dvars>>

NextAdapter == MassMatrixAdapter_step \/ MassMatrixAdapter_finalize

SpecAdapter == InitAdapter /\ [][NextAdapter]_vars

(***************************************************************************)
(* C22 - finalize with too few positions                                   *)
(***************************************************************************)
\* C22: a call of finalize after fewer than two positions were passed to
\* step since construction or the previous finalize raises nothing, warns
\* with the message of the RuntimeError and leaves mass_inv and
\* momentum_dist as they were; after every call of finalize, that one and
\* the successful one alike, the sample count of the accumulator is the
\* number of positions passed since the call: it started again at 0.
C22_FinalizeTooFewWarns ==
    /\ adapter_status = "ok"
    /\ _count = last_finalize.steps
    /\ last_finalize.calls > 0 =>
          /\ last_finalize.warning <=> last_finalize.positions < 2
          /\ last_finalize.positions < 2 =>
                /\ mass_inv = last_finalize.mass_inv
                /\ momentum_dist = last_finalize.momentum_dist
                /\ Len(warned) > 0
                /\ warned[Len(warned)] = TooFewSamples

\* C22 witness: after a successful finalize gave a mass matrix that is not
\* the identity, a finalize after one position warned and kept it, and one
\* position has been passed since
C22_Witness ==
    /\ last_finalize.calls = 2
    /\ last_finalize.positions = 1
    /\ last_finalize.warning
    /\ mass_inv # <<1, 1>>
    /\ mass_inv = last_finalize.mass_inv
    /\ warned = <<TooFewSamples>>
    /\ _count = 1


(***************************************************************************)
(* marginal1d/utils.py: the module constant EMPTY_DATA and create_sources. *)
(* A dictionary is a function over its keys, in the order of the two       *)
(* sequences below; "[]" is the empty list and "nan" is np.NaN.  A         *)
(* ColumnDataSource is the dictionary of columns it was built from.        *)
(***************************************************************************)
FigureKeys == <<"marginal", "cumulative">>

GlyphKeys == <<"distribution", "hdi", "stats", "labels">>

Columns(ks) == [k \in ks |-> "[]"]

\* one figure of EMPTY_DATA as written in the module
EMPTY_FIGURE ==
    [g \in {"distribution", "hdi", "stats", "labels"} |->
        IF g = "distribution"
            THEN [k \in {"x", "y", "bandwidth"} |->
                     IF k = "bandwidth" THEN "nan" ELSE "[]"]
        ELSE IF g = "hdi" THEN Columns({"base", "lower", "upper"})
        ELSE IF g = "stats" THEN Columns({"x", "y", "text"})
        ELSE Columns({"x", "y", "text", "text_align", "x_offset", "y_offset"})]

\* EMPTY_DATA at import
EMPTY_DATA_at_import == [f \in {"marginal", "cumulative"} |-> EMPTY_FIGURE]

\* dict.pop(key) on a dictionary that has the key
pop(dict, key) == [k \in (DOMAIN dict) \ {key} |-> dict[k]]

\* the position after <<f, g>> in the two nested loops of create_sources
\* (<<Len(FigureKeys) + 1, 1>>: both loops are over)
NextPosition(f, g) == IF g < Len(GlyphKeys) THEN <<f, g + 1>> ELSE <<f + 1, 1>>

InitUtils ==
    /\ EMPTY_DATA = EMPTY_DATA_at_import
    /\ output = <<>>
    /\ position = <<>>
    /\ returned = <<>>
    /\ utils_status = "imported"
    /\ TensorizerIdle
    /\ WindowIdle
    /\ ShapeIdle
    /\ AdapterIdle

\* create_sources is called: output = {}
create_sources_enter ==
    /\ utils_status = "imported"
    /\ position = <<>>
    /\ Len(returned) < MaxCalls
    /\ output' = <<>>
    /\ position' = <<1, 1>>
    /\ UNCHANGED <<EMPTY_DATA, returned, utils_status, tvars, wvars, svars, avars>>

\* one iteration of the inner loop: glyph_data is the dictionary held by
\* EMPTY_DATA itself, so the pop takes the key out of EMPTY_DATA
create_sources_glyph ==
    /\ position # <<>>
    /\ position[1] <= Len(FigureKeys)
    /\ LET figure_name == FigureKeys[position[1]]
           glyph_name == GlyphKeys[position[2]]
           glyph_data == EMPTY_DATA[figure_name][glyph_name]
           popped == IF "bandwidth" \in DOMAIN glyph_data
                         THEN pop(glyph_data, "bandwidth")
                     ELSE glyph_data
           figure_output == IF figure_name \in DOMAIN output
                                THEN output[figure_name]
                            ELSE <<>>
       IN /\ EMPTY_DATA' = [EMPTY_DATA EXCEPT ![figure_name][glyph_name] = popped]
          /\ output' = [f \in (DOMAIN output) \cup {figure_name} |->
                           IF f = figure_name
                               THEN [g \in (DOMAIN figure_output) \cup {glyph_name} |->
                                        IF g = glyph_name THEN popped
                                        ELSE figure_output[g]]
                           ELSE output[f]]
    /\ position' = NextPosition(position[1], position[2])
    /\ UNCHANGED <<returned, utils_status, tvars, wvars, svars, avars>>

\* return output
create_sources_return ==
    /\ position # <<>>
    /\ position[1] > Len(FigureKeys)
    /\ returned' = Append(returned, output)
    /\ position' = <<>>
    /\ UNCHANGED <<EMPTY_DATA, output, utils_status, tvars, wvars, svars, avars>>

NextUtils == create_sources_enter \/ create_sources_glyph \/ create_sources_return

SpecUtils == InitUtils /\ [][NextUtils]_vars

(***************************************************************************)
(* C23 - create_sources and EMPTY_DATA                                     *)
(***************************************************************************)
\* C23: create_sources does not modify EMPTY_DATA: in every state of the
\* loaded module EMPTY_DATA has the keys and values it had at import, the
\* "bandwidth" entry of each distribution included, and every call returned
\* sources of the same figure names, glyph names and columns.
C23_EmptyDataUnchanged ==
    utils_status = "imported" =>
        /\ EMPTY_DATA = EMPTY_DATA_at_import
        /\ \A c \in DOMAIN returned : returned[c] = returned[1]

====
